---- MODULE Spec2Model ----
(***************************************************************************)
(* The ledger-based swipe / match / undo engine of the LIF backend         *)
(* (src/src/controllers/userController.js) over its mongoose collections.  *)
(* Every request handler is an async function: it runs from one store call *)
(* (await) to the next without interruption, and other requests may run in *)
(* between.  One action of this module is one such segment: the store call *)
(* that ends the await, followed by the synchronous code up to the next    *)
(* store call.                                                             *)
(***************************************************************************)
EXTENDS Integers, Sequences, FiniteSets, TLC

\* ---------------------------------------------------------------- bounds
MaxProcs == 2          \* requests that may be in flight at the same time
MaxRequests == 3       \* requests sent when they are served concurrently
MaxSeqRequests == 4    \* requests sent when they are served one at a time
MaxClockRequests == 2  \* requests sent when the clock advances between them
MaxTicks == 3          \* clock advances in one behaviour
MaxSwipeRequests == 3  \* requests sent when the clock ticks between them
MaxSwipeTicks == 1     \* clock ticks between those requests
MaxDiscoverRequests == 3  \* requests sent to discovery and hiatus
MaxCountedRequests == 3   \* requests sent to the two swipe handlers
MaxSafetyRequests == 4    \* requests sent to reports, hiatus and discovery
MaxAuthRequests == 4      \* requests sent to login, reset and the middleware
MaxBoostRequests == 3     \* requests sent to boost and discovery
MaxBoostTicks == 1        \* clock advances between those requests

\* ------------------------------------------------------------- constants
Users == {"u1", "u2", "u3"}       \* _id of the stored User documents
Ghost == "ghost"                  \* an ObjectId no User document has
Null == "null"
NoTime == -1                      \* timestamp: null
UndoWindow == 24 * 60 * 60 * 1000 \* milliseconds
Directions == {"right", "up", "left"}
Procs == 1 .. MaxProcs
Pairs == Users \X Users
SwipeDirections == Directions \cup {"down"}  \* "down": no direction at all

\* the profile data the discovery query reads and no modelled handler writes:
\* location.coordinates as [longitude, latitude], in kilometres on the
\* equator, and gender
Location == [u \in Users |->
                IF u = "u1" THEN <<0, 0>> ELSE IF u = "u2" THEN <<1, 0>>
                ELSE <<3, 0>>]
Gender == [u \in Users |-> IF u = "u2" THEN "female" ELSE "male"]
DefaultMaxDistance == 50          \* kilometres

BoostWindow == 24 * 60 * 60 * 1000 \* milliseconds a boost lasts
ReportThreshold == 3             \* reports that put a user on hiatus

Absent == -1                      \* a number of the query that is undefined
NaN == -2                         \* the number that is not a number

\* req.query of getProfiles: lat, lng and maxDistance are Absent or a number,
\* gender is Null when absent; the attribute filters (gender, preferences,
\* ethnicity, education, smoking, interests) are all optional conditions on
\* one field, gender stands for them
Queries ==
    [lat : {Absent, 0}, lng : {Absent, 0, 2}, maxDistance : {Absent, 1},
     gender : {Null, "male"}]
NoQuery ==
    [lat |-> Absent, lng |-> Absent, maxDistance |-> Absent, gender |-> Null]

VARIABLES
    User,      \* User collection: _id -> document (fields the engine uses)
    Like,      \* Like collection: <<liker, likee>> -> number of documents
    Match,     \* Match collection: users array <<x, y>> -> number of documents
    pubsub,    \* MATCH_CREATED events published, by the match's users array
    now,       \* Date.now()
    ticks,     \* clock advances so far
    req,       \* the requests in flight, one per worker slot
    pending,   \* requests the clients have yet to send
    response,  \* the response sent last
    SafetyReport,  \* SafetyReport collection: reportedUserId -> documents
    issued     \* the tokens handed out: payload, holder, tokenVersion then

vars == <<User, Like, Match, pubsub, now, ticks, req, pending, response,
          SafetyReport, issued>>

\* ------------------------------------------------------------ documents
NoSwipe == [direction |-> Null, targetId |-> Null, timestamp |-> NoTime]

\* a User document as the schema's defaults leave it; v is the version key __v
\* views is a field of both schemas; swipesRight, swipesLeft, maybeSwipes and
\* skippedMatches are fields of the schema of the counter-based handlers;
\* boostedUntil has no default and tokenVersion starts at 0 in both
NewUser ==
    [maybeLikes |-> <<>>, lastSwipeAction |-> NoSwipe, hiatus |-> FALSE, v |-> 0,
     views |-> 0, swipesRight |-> 0, swipesLeft |-> 0, maybeSwipes |-> <<>>,
     skippedMatches |-> <<>>, boostedUntil |-> NoTime, tokenVersion |-> 0]

\* the payload of a token: what jwt.sign was given, a field it was not given
\* being undefined in what jwt.verify returns
NoPayload == [id |-> Null, userId |-> Null, tokenVersion |-> Absent]

IdleReq ==
    [op |-> "idle", pc |-> "idle", userId |-> Null, targetId |-> Null,
     direction |-> Null, user |-> NewUser, target |-> NewUser,
     query |-> NoQuery, data |-> {}, list |-> <<>>, token |-> NoPayload]

Includes(s, x) == \E i \in 1 .. Len(s) : s[i] = x

RECURSIVE Filter(_, _)
Filter(s, x) ==
    IF s = <<>> THEN <<>>
    ELSE IF Head(s) = x THEN Filter(Tail(s), x)
    ELSE <<Head(s)>> \o Filter(Tail(s), x)

\* ---------------------------------------------------------- store queries
\* the query with liker and likee exchanged
FindLikeReversed(liker, likee) == Like[<<likee, liker>>] > 0

\* Like.findOne({ liker, likee })
FindLike(liker, likee) == Like[<<liker, likee>>] > 0

\* the query matching the users array in the order given only
FindMatchOrdered(a, b) == Match[<<a, b>>] > 0

\* Match.findOne({ users: { $all: [a, b] } })
FindMatchAll(a, b) == Match[<<a, b>>] + Match[<<b, a>>] > 0

\* Match.findOne({ users: [a, b] }): the array with these elements in this
\* order
FindMatchExact(a, b) == Match[<<a, b>>] > 0

\* the window taken in seconds against a difference in milliseconds
UndoExpiredSeconds(t, timestamp) == t - timestamp > 24 * 60 * 60

\* Date.now() - new Date(timestamp) > 24 * 60 * 60 * 1000
UndoExpired(t, timestamp) == t - timestamp > UndoWindow

\* !direction || !targetId || !timestamp
NoRecentSwipe(a) ==
    a.direction = Null \/ a.targetId = Null \/ a.timestamp = NoTime

\* a query that leaves out hiatus: false
getProfilesWithHiatus(userId) ==
    {u \in DOMAIN User : u # userId}

\* lines 51-56, 64: the query of getProfiles as far as it reads the state of
\* the engine: { _id: { $ne: userId }, hiatus: false }
getProfiles(userId) ==
    {u \in DOMAIN User : u # userId /\ ~User[u].hiatus}

Abs(x) == IF x < 0 THEN -x ELSE x

\* parseFloat(x): NaN for a query value that is absent
ParseFloat(x) == IF x = Absent THEN NaN ELSE x

\* maxDistance = 50 when absent
MaxDistance(q) ==
    IF q.maxDistance = Absent THEN DefaultMaxDistance ELSE q.maxDistance

\* metres between a stored location and the point [lng, lat]
Metres(location, lng, lat) ==
    (Abs(location[1] - lng) + Abs(location[2] - lat)) * 1000

\* User.find(query) of getProfiles for coordinates that are numbers:
\* location: { $near: { $geometry: [lng, lat], $maxDistance } }, the optional
\* attribute filter, and the conditions of getProfiles(userId)
Candidates(userId, q) ==
    {u \in getProfiles(userId) :
        /\ Metres(Location[u], ParseFloat(q.lng), ParseFloat(q.lat))
               <= MaxDistance(q) * 1000
        /\ q.gender # Null => Gender[u] = q.gender}

\* the orders in which a query can return the documents of S
Orders(S) ==
    {l \in [1 .. Cardinality(S) -> S] : \A u \in S : \E i \in DOMAIN l : l[i] = u}

\* metres between the stored location of u and the centre of the query
Distance(u, q) == Metres(Location[u], ParseFloat(q.lng), ParseFloat(q.lat))

\* $near returns the documents nearest first; documents at one distance come
\* in no particular order
NearOrders(S, q) ==
    {l \in Orders(S) :
        \A i, j \in DOMAIN l : i < j => Distance(l[i], q) <= Distance(l[j], q)}

\* .sort({ boostedUntil: -1 }) re-orders what $near returned: latest
\* boostedUntil first, documents without one last; documents with one
\* boostedUntil come in no particular order
BoostOrders(S) ==
    {l \in Orders(S) :
        \A i, j \in DOMAIN l :
            i < j => User[l[i]].boostedUntil >= User[l[j]].boostedUntil}

\* ------------------------------------------------------------- responses
Response(r, status, message) ==
    [op |-> r.op, userId |-> r.userId, targetId |-> r.targetId,
     direction |-> r.direction, status |-> status, message |-> message,
     query |-> r.query, data |-> r.data, list |-> r.list, token |-> r.token]

\* the handler returns or throws: the response is sent and the slot is free
Finish(p, r, status, message) ==
    /\ response' = Response(r, status, message)
    /\ req' = [req EXCEPT ![p] = IdleReq]

Goto(p, r, pc) ==
    /\ req' = [req EXCEPT ![p] = [r EXCEPT !.pc = pc]]
    /\ UNCHANGED response

FreeSlot(p) ==
    /\ req[p].op = "idle"
    /\ \A q \in Procs : q < p => req[q].op # "idle"
    /\ pending > 0

NewReq(op, userId, targetId, direction) ==
    [op |-> op, pc |-> "start", userId |-> userId, targetId |-> targetId,
     direction |-> direction, user |-> NewUser, target |-> NewUser,
     query |-> NoQuery, data |-> {}, list |-> <<>>, token |-> NoPayload]

InitWith(n) ==
    /\ User = [u \in Users |-> NewUser]
    /\ Like = [pr \in Pairs |-> 0]
    /\ Match = [pr \in Pairs |-> 0]
    /\ pubsub = [pr \in Pairs |-> 0]
    /\ now = 0
    /\ ticks = 0
    /\ req = [p \in Procs |-> IdleReq]
    /\ pending = n
    /\ response = Response(IdleReq, 0, Null)
    /\ SafetyReport = [u \in Users \cup {Ghost} |-> 0]
    /\ issued = {}

Init == InitWith(MaxRequests)

\* ------------------------------------------------------------ likeProfile
\* a likeProfile without the check of line 194
LikeStartNoSelfCheck(p, likerId, targetId, direction) ==
    /\ FreeSlot(p)
    /\ pending' = pending - 1
    /\ LET r == NewReq("likeProfile", likerId, targetId, direction) IN
        IF direction \notin {"right", "up"}
        THEN Finish(p, r, 400, "Invalid direction")
        ELSE IF targetId \notin DOMAIN User
        THEN Finish(p, r, 404, "Target user not found")
        ELSE Goto(p, r, "findUser")
    /\ UNCHANGED <<User, Like, Match, pubsub, now, ticks, SafetyReport, issued>>

\* lines 189-196: the request arrives, direction and self checks, and
\* User.findById(targetId)
LikeStart(p, likerId, targetId, direction) ==
    /\ FreeSlot(p)
    /\ pending' = pending - 1
    /\ LET r == NewReq("likeProfile", likerId, targetId, direction) IN
        IF direction \notin {"right", "up"}
        THEN Finish(p, r, 400, "Invalid direction")
        ELSE IF likerId = targetId
        THEN Finish(p, r, 400, "Cannot like yourself")
        ELSE IF targetId \notin DOMAIN User
        THEN Finish(p, r, 404, "Target user not found")
        ELSE Goto(p, r, "findUser")
    /\ UNCHANGED <<User, Like, Match, pubsub, now, ticks, SafetyReport, issued>>

\* line 198: User.findById(likerId); for "up", lines 224-226 run on the copy
LikeFindUser(p) ==
    LET r == req[p]
        u == User[r.userId]
    IN
    /\ r.op = "likeProfile" /\ r.pc = "findUser"
    /\ IF r.direction = "right"
       THEN Goto(p, [r EXCEPT !.user = u], "findLike")
       ELSE IF Includes(u.maybeLikes, r.targetId)
       THEN Finish(p, r, 400, "Already marked as maybe")
       ELSE Goto(p, [r EXCEPT !.user =
                [u EXCEPT !.maybeLikes = Append(@, r.targetId),
                          !.lastSwipeAction =
                              [direction |-> "up", targetId |-> r.targetId,
                               timestamp |-> now]]], "saveMaybe")
    /\ UNCHANGED <<User, Like, Match, pubsub, now, ticks, pending,
                   SafetyReport, issued>>

\* a duplicate check that stamps lastSwipeAction before it rejects
LikeFindExistingStamps(p) ==
    LET r == req[p] IN
    /\ r.op = "likeProfile" /\ r.pc = "findLike"
    /\ IF FindLike(r.userId, r.targetId)
       THEN /\ User' = [User EXCEPT ![r.userId].lastSwipeAction =
                           [direction |-> "right", targetId |-> r.targetId,
                            timestamp |-> now]]
            /\ Finish(p, r, 400, "Already liked this profile")
       ELSE /\ Goto(p, r, "saveLike")
            /\ UNCHANGED User
    /\ UNCHANGED <<Like, Match, pubsub, now, ticks, pending,
                   SafetyReport, issued>>

\* lines 201-202: Like.findOne({ liker, likee })
LikeFindExisting(p) ==
    LET r == req[p] IN
    /\ r.op = "likeProfile" /\ r.pc = "findLike"
    /\ IF FindLike(r.userId, r.targetId)
       THEN Finish(p, r, 400, "Already liked this profile")
       ELSE Goto(p, r, "saveLike")
    /\ UNCHANGED <<User, Like, Match, pubsub, now, ticks, pending,
                   SafetyReport, issued>>

\* lines 204-206: like.save(), then lastSwipeAction is set on the copy
LikeSave(p) ==
    LET r == req[p] IN
    /\ r.op = "likeProfile" /\ r.pc = "saveLike"
    /\ Like' = [Like EXCEPT ![<<r.userId, r.targetId>>] = @ + 1]
    /\ Goto(p, [r EXCEPT !.user.lastSwipeAction =
                    [direction |-> "right", targetId |-> r.targetId,
                     timestamp |-> now]], "saveUser")
    /\ UNCHANGED <<User, Match, pubsub, now, ticks, pending,
                   SafetyReport, issued>>

\* a save that keeps a lastSwipeAction already recorded
LikeSaveUserKeepsFirst(p) ==
    LET r == req[p] IN
    /\ r.op = "likeProfile" /\ r.pc = "saveUser"
    /\ User' = [User EXCEPT ![r.userId].lastSwipeAction =
                   IF NoRecentSwipe(@) THEN r.user.lastSwipeAction ELSE @]
    /\ Goto(p, r, "findMutual")
    /\ UNCHANGED <<Like, Match, pubsub, now, ticks, pending,
                   SafetyReport, issued>>

\* line 207: user.save() writes the modified path lastSwipeAction
LikeSaveUser(p) ==
    LET r == req[p] IN
    /\ r.op = "likeProfile" /\ r.pc = "saveUser"
    /\ User' = [User EXCEPT ![r.userId].lastSwipeAction = r.user.lastSwipeAction]
    /\ Goto(p, r, "findMutual")
    /\ UNCHANGED <<Like, Match, pubsub, now, ticks, pending,
                   SafetyReport, issued>>

\* a mutual check that takes every right swipe for reciprocated
LikeFindMutualAlways(p) ==
    LET r == req[p] IN
    /\ r.op = "likeProfile" /\ r.pc = "findMutual"
    /\ Goto(p, r, "findMatch")
    /\ UNCHANGED <<User, Like, Match, pubsub, now, ticks, pending,
                   SafetyReport, issued>>

\* lines 210-211, 222: Like.findOne({ liker: targetId, likee: likerId })
LikeFindMutual(p) ==
    LET r == req[p] IN
    /\ r.op = "likeProfile" /\ r.pc = "findMutual"
    /\ IF FindLike(r.targetId, r.userId)
       THEN Goto(p, r, "findMatch")
       ELSE Finish(p, r, 200, "Profile liked")
    /\ UNCHANGED <<User, Like, Match, pubsub, now, ticks, pending,
                   SafetyReport, issued>>

\* lines 212-213, 220: Match.findOne({ users: { $all: [likerId, targetId] } })
LikeFindMatch(p) ==
    LET r == req[p] IN
    /\ r.op = "likeProfile" /\ r.pc = "findMatch"
    /\ IF FindMatchAll(r.userId, r.targetId)
       THEN Finish(p, r, 200, "Match already exists")
       ELSE Goto(p, r, "saveMatch")
    /\ UNCHANGED <<User, Like, Match, pubsub, now, ticks, pending,
                   SafetyReport, issued>>

\* lines 214-218: match.save() and pubsub.publish('MATCH_CREATED')
LikeSaveMatch(p) ==
    LET r == req[p] IN
    /\ r.op = "likeProfile" /\ r.pc = "saveMatch"
    /\ Match' = [Match EXCEPT ![<<r.userId, r.targetId>>] = @ + 1]
    /\ pubsub' = [pubsub EXCEPT ![<<r.userId, r.targetId>>] = @ + 1]
    /\ Finish(p, r, 200, "Match created!")
    /\ UNCHANGED <<User, Like, now, ticks, pending, SafetyReport, issued>>

\* line 227: user.save() after maybeLikes.push(): $push, $set lastSwipeAction,
\* and the version key is incremented
LikeSaveMaybe(p) ==
    LET r == req[p] IN
    /\ r.op = "likeProfile" /\ r.pc = "saveMaybe"
    /\ User' = [User EXCEPT ![r.userId] =
                   [@ EXCEPT !.maybeLikes = Append(@, r.targetId),
                             !.lastSwipeAction = r.user.lastSwipeAction,
                             !.v = @ + 1]]
    /\ Finish(p, r, 200, "Profile marked as maybe")
    /\ UNCHANGED <<Like, Match, pubsub, now, ticks, pending,
                   SafetyReport, issued>>

\* ---------------------------------------------------------- undoLastSwipe
\* an undo that clears lastSwipeAction before it rejects an expired swipe
UndoStartClearsExpired(p, userId) ==
    LET r == NewReq("undoLastSwipe", userId, Null, Null)
        u == User[userId]
        a == u.lastSwipeAction
    IN
    /\ FreeSlot(p)
    /\ pending' = pending - 1
    /\ IF NoRecentSwipe(a)
       THEN Finish(p, r, 400, "No recent swipe to undo") /\ UNCHANGED User
       ELSE IF UndoExpired(now, a.timestamp)
       THEN /\ Finish(p, r, 400, "Undo period expired (24 hours)")
            /\ User' = [User EXCEPT ![userId].lastSwipeAction = NoSwipe]
       ELSE IF a.direction = "right"
       THEN Goto(p, [r EXCEPT !.user = u], "findOneAndDelete") /\ UNCHANGED User
       ELSE Goto(p, [r EXCEPT !.user = u], "saveUser") /\ UNCHANGED User
    /\ UNCHANGED <<Like, Match, pubsub, now, ticks, SafetyReport, issued>>

\* lines 271-277: User.findById and the two precondition checks
UndoStart(p, userId) ==
    LET r == NewReq("undoLastSwipe", userId, Null, Null)
        u == User[userId]
        a == u.lastSwipeAction
    IN
    /\ FreeSlot(p)
    /\ pending' = pending - 1
    /\ IF NoRecentSwipe(a)
       THEN Finish(p, r, 400, "No recent swipe to undo")
       ELSE IF UndoExpired(now, a.timestamp)
       THEN Finish(p, r, 400, "Undo period expired (24 hours)")
       ELSE IF a.direction = "right"
       THEN Goto(p, [r EXCEPT !.user = u], "findOneAndDelete")
       ELSE Goto(p, [r EXCEPT !.user = u], "saveUser")
    /\ UNCHANGED <<User, Like, Match, pubsub, now, ticks, SafetyReport, issued>>

\* an undo that treats a missing ledger entry as already undone
UndoFindOneAndDeleteTolerant(p) ==
    LET r == req[p]
        pr == <<r.userId, r.user.lastSwipeAction.targetId>>
    IN
    /\ r.op = "undoLastSwipe" /\ r.pc = "findOneAndDelete"
    /\ Like' = [Like EXCEPT ![pr] = IF @ = 0 THEN 0 ELSE @ - 1]
    /\ Goto(p, r, "saveUser")
    /\ UNCHANGED <<User, Match, pubsub, now, ticks, pending,
                   SafetyReport, issued>>

\* an undo that also dissolves the Match of the pair
UndoFindOneAndDeleteUnmatch(p) ==
    LET r == req[p]
        pr == <<r.userId, r.user.lastSwipeAction.targetId>>
    IN
    /\ r.op = "undoLastSwipe" /\ r.pc = "findOneAndDelete"
    /\ IF Like[pr] = 0
       THEN /\ Finish(p, r, 400, "Like not found to undo")
            /\ UNCHANGED <<Like, Match>>
       ELSE /\ Like' = [Like EXCEPT ![pr] = @ - 1]
            /\ Match' = [Match EXCEPT ![pr] = 0, ![<<pr[2], pr[1]>>] = 0]
            /\ Goto(p, r, "saveUser")
    /\ UNCHANGED <<User, pubsub, now, ticks, pending, SafetyReport, issued>>

\* an undo that finds the ledger entry and leaves it stored
UndoFindOneKeeps(p) ==
    LET r == req[p]
        pr == <<r.userId, r.user.lastSwipeAction.targetId>>
    IN
    /\ r.op = "undoLastSwipe" /\ r.pc = "findOneAndDelete"
    /\ IF Like[pr] = 0
       THEN Finish(p, r, 400, "Like not found to undo")
       ELSE Goto(p, r, "saveUser")
    /\ UNCHANGED <<User, Like, Match, pubsub, now, ticks, pending,
                   SafetyReport, issued>>

\* lines 280-282: Like.findOneAndDelete({ liker, likee })
UndoFindOneAndDelete(p) ==
    LET r == req[p]
        pr == <<r.userId, r.user.lastSwipeAction.targetId>>
    IN
    /\ r.op = "undoLastSwipe" /\ r.pc = "findOneAndDelete"
    /\ IF Like[pr] = 0
       THEN /\ Finish(p, r, 400, "Like not found to undo")
            /\ UNCHANGED Like
       ELSE /\ Like' = [Like EXCEPT ![pr] = @ - 1]
            /\ Goto(p, r, "saveUser")
    /\ UNCHANGED <<User, Match, pubsub, now, ticks, pending,
                   SafetyReport, issued>>

\* lastSwipeAction left as it was read
ClearedSwipeKept(a) == a

\* line 288: user.lastSwipeAction = { direction: null, targetId: null,
\* timestamp: null }
ClearedSwipe(a) == NoSwipe

\* the filter with === for !==: only the target is kept
UndoFilterKeepsTarget(maybeLikes, targetId) ==
    SelectSeq(maybeLikes, LAMBDA id : id = targetId)

\* line 284: user.maybeLikes.filter(id => id.toString() !== targetId.toString())
UndoFilter(maybeLikes, targetId) == Filter(maybeLikes, targetId)

\* lines 283-292: for "up" the filtered maybeLikes replaces the array of the
\* copy; lastSwipeAction is cleared; user.save(); the response.  A replaced
\* array is written with $set under the document's version key, so the save
\* fails when the stored version is no longer the one that was read.  The
\* record of a successful undo names the swipe it reversed.
UndoSaveUser(p) ==
    LET r == req[p]
        a == r.user.lastSwipeAction
        filtered == IF a.direction = "up"
                    THEN UndoFilter(r.user.maybeLikes, a.targetId)
                    ELSE r.user.maybeLikes
        arrayModified == filtered # r.user.maybeLikes
    IN
    /\ r.op = "undoLastSwipe" /\ r.pc = "saveUser"
    /\ IF arrayModified /\ User[r.userId].v # r.user.v
       THEN /\ Finish(p, r, 500, "VersionError")
            /\ UNCHANGED User
       ELSE /\ User' = [User EXCEPT ![r.userId] =
                    [@ EXCEPT !.maybeLikes = IF arrayModified THEN filtered ELSE @,
                              !.lastSwipeAction = ClearedSwipe(a),
                              !.v = IF arrayModified THEN @ + 1 ELSE @]]
            /\ Finish(p, [r EXCEPT !.targetId = a.targetId,
                                   !.direction = a.direction],
                      200, "Last swipe undone successfully")
    /\ UNCHANGED <<Like, Match, pubsub, now, ticks, pending,
                   SafetyReport, issued>>

\* ---------------------------------------------------------- deleteProfile
\* lines 148-152: User.findById; Message.deleteMany touches no state of the
\* engine
DeleteStart(p, userId) ==
    /\ FreeSlot(p)
    /\ pending' = pending - 1
    /\ Goto(p, NewReq("deleteProfile", userId, Null, Null), "deleteMatches")
    /\ UNCHANGED <<User, Like, Match, pubsub, now, ticks, SafetyReport, issued>>

\* line 153: Match.deleteMany({ users: userId })
DeleteMatches(p) ==
    LET r == req[p] IN
    /\ r.op = "deleteProfile" /\ r.pc = "deleteMatches"
    /\ Match' = [pr \in Pairs |->
                    IF r.userId \in {pr[1], pr[2]} THEN 0 ELSE Match[pr]]
    /\ Goto(p, r, "deleteLikes")
    /\ UNCHANGED <<User, Like, pubsub, now, ticks, pending,
                   SafetyReport, issued>>

\* lines 154-155: Like.deleteMany({ $or: [{ liker }, { likee }] }); the next
\* statement names Confession, which line 1 does not import: a ReferenceError
\* is thrown and lines 156-161 never run
DeleteLikes(p) ==
    LET r == req[p] IN
    /\ r.op = "deleteProfile" /\ r.pc = "deleteLikes"
    /\ Like' = [pr \in Pairs |->
                   IF r.userId \in {pr[1], pr[2]} THEN 0 ELSE Like[pr]]
    /\ Finish(p, r, 500, "ReferenceError: Confession is not defined")
    /\ UNCHANGED <<User, Match, pubsub, now, ticks, pending,
                   SafetyReport, issued>>

\* ------------------------------------------------------------ getProfiles
\* lines 46-49: the request arrives and User.findById(req.userId)
GetProfilesStart(p, userId, q) ==
    /\ FreeSlot(p)
    /\ pending' = pending - 1
    /\ LET r == [NewReq("getProfiles", userId, Null, Null) EXCEPT !.query = q] IN
        IF userId \notin DOMAIN User
        THEN Finish(p, r, 404, "User not found")
        ELSE Goto(p, r, "find")
    /\ UNCHANGED <<User, Like, Match, pubsub, now, ticks, SafetyReport, issued>>

\* lines 51-65: User.find(query).limit(10), in the order of $near; the limit
\* is above the number of stored users.  Nothing checks lat and lng: when
\* one is absent its coordinate is parseFloat(undefined) = NaN, which the
\* store does not accept as a number, and the find throws.
GetProfilesFind(p) ==
    LET r == req[p] IN
    /\ r.op = "getProfiles" /\ r.pc = "find"
    /\ IF NaN \in {ParseFloat(r.query.lng), ParseFloat(r.query.lat)}
       THEN Finish(p, r, 500, "CastError")
       ELSE \E l \in NearOrders(Candidates(r.userId, r.query), r.query) :
                Finish(p, [r EXCEPT !.data = Candidates(r.userId, r.query),
                                    !.list = l],
                       200, "Profiles retrieved successfully")
    /\ UNCHANGED <<User, Like, Match, pubsub, now, ticks, pending,
                   SafetyReport, issued>>

\* getProfiles of the counter-based controller, lines 79-106: !lat || !lng is
\* checked first, then User.find(query).sort({ boostedUntil: -1 })
CountedGetProfilesStart(p, userId, q) ==
    /\ FreeSlot(p)
    /\ pending' = pending - 1
    /\ LET r == [NewReq("countedGetProfiles", userId, Null, Null)
                    EXCEPT !.query = q] IN
        IF q.lat = Absent \/ q.lng = Absent
        THEN Finish(p, r, 400, "Latitude and longitude are required")
        ELSE \E l \in BoostOrders(Candidates(userId, q)) :
                 Goto(p, [r EXCEPT !.data = Candidates(userId, q), !.list = l],
                      "findUser")
    /\ UNCHANGED <<User, Like, Match, pubsub, now, ticks, SafetyReport, issued>>

\* lines 107-108: User.findById(req.userId) and views += 1 on the copy
CountedGetProfilesFindUser(p) ==
    LET r == req[p] IN
    /\ r.op = "countedGetProfiles" /\ r.pc = "findUser"
    /\ Goto(p, [r EXCEPT !.user = [User[r.userId] EXCEPT !.views = @ + 1]],
            "saveUser")
    /\ UNCHANGED <<User, Like, Match, pubsub, now, ticks, pending,
                   SafetyReport, issued>>

\* lines 109-110: currentUser.save() writes the modified path views
CountedGetProfilesSave(p) ==
    LET r == req[p] IN
    /\ r.op = "countedGetProfiles" /\ r.pc = "saveUser"
    /\ User' = [User EXCEPT ![r.userId].views = r.user.views]
    /\ Finish(p, r, 200, "Profiles retrieved successfully")
    /\ UNCHANGED <<Like, Match, pubsub, now, ticks, pending,
                   SafetyReport, issued>>

\* ----------------------------------------------------------- toggleHiatus
\* lines 354-356: User.findById and hiatus negated on the copy
ToggleHiatusStart(p, userId) ==
    /\ FreeSlot(p)
    /\ pending' = pending - 1
    /\ Goto(p, [NewReq("toggleHiatus", userId, Null, Null) EXCEPT
                   !.user = [User[userId] EXCEPT !.hiatus = ~@]], "saveUser")
    /\ UNCHANGED <<User, Like, Match, pubsub, now, ticks, SafetyReport, issued>>

\* lines 357-359: user.save() writes the modified path hiatus
ToggleHiatusSave(p) ==
    LET r == req[p] IN
    /\ r.op = "toggleHiatus" /\ r.pc = "saveUser"
    /\ User' = [User EXCEPT ![r.userId].hiatus = r.user.hiatus]
    /\ Finish(p, r, 200, IF r.user.hiatus THEN "Hiatus enabled successfully"
                         ELSE "Hiatus disabled successfully")
    /\ UNCHANGED <<Like, Match, pubsub, now, ticks, pending,
                   SafetyReport, issued>>

\* ----------------------------------------------------------- boostProfile
\* userController.js lines 378-380: User.findById and boostedUntil set on the
\* copy to 24 hours from now
BoostProfileStart(p, userId) ==
    /\ FreeSlot(p)
    /\ pending' = pending - 1
    /\ Goto(p, [NewReq("boostProfile", userId, Null, Null) EXCEPT
                   !.user = [User[userId] EXCEPT !.boostedUntil = now + BoostWindow]],
            "saveUser")
    /\ UNCHANGED <<User, Like, Match, pubsub, now, ticks, SafetyReport, issued>>

\* lines 381-383: user.save() writes the modified path boostedUntil
BoostProfileSave(p) ==
    LET r == req[p] IN
    /\ r.op = "boostProfile" /\ r.pc = "saveUser"
    /\ User' = [User EXCEPT ![r.userId].boostedUntil = r.user.boostedUntil]
    /\ Finish(p, r, 200, "Profile boosted successfully")
    /\ UNCHANGED <<Like, Match, pubsub, now, ticks, pending,
                   SafetyReport, issued>>

\* ------------------------------------------------ reportSuspiciousActivity
\* a threshold that the third report does not reach
FlaggedAbove(reportCount) == reportCount > ReportThreshold

\* safetyController.js line 36: reportCount >= 3
Flagged(reportCount) == reportCount >= ReportThreshold

\* lines 29-32: new SafetyReport({ userId, reportedUserId, ... }) and
\* report.save()
ReportStart(p, userId, reportedUserId) ==
    /\ FreeSlot(p)
    /\ pending' = pending - 1
    /\ SafetyReport' = [SafetyReport EXCEPT ![reportedUserId] = @ + 1]
    /\ Goto(p, NewReq("reportSuspiciousActivity", userId, reportedUserId, Null),
            "countDocuments")
    /\ UNCHANGED <<User, Like, Match, pubsub, now, ticks, issued>>

\* lines 35-36, 42: SafetyReport.countDocuments({ reportedUserId }) and the
\* threshold
ReportCountDocuments(p) ==
    LET r == req[p] IN
    /\ r.op = "reportSuspiciousActivity" /\ r.pc = "countDocuments"
    /\ IF Flagged(SafetyReport[r.targetId])
       THEN Goto(p, r, "findUser")
       ELSE Finish(p, r, 200, "Suspicious activity reported successfully")
    /\ UNCHANGED <<User, Like, Match, pubsub, now, ticks, pending,
                   SafetyReport, issued>>

\* lines 37-38: User.findById(reportedUserId) and user.hiatus = true on the
\* copy; nothing checks that a document was found
ReportFindUser(p) ==
    LET r == req[p] IN
    /\ r.op = "reportSuspiciousActivity" /\ r.pc = "findUser"
    /\ IF r.targetId \notin DOMAIN User
       THEN Finish(p, r, 500, "TypeError")
       ELSE Goto(p, [r EXCEPT !.user = User[r.targetId]], "saveUser")
    /\ UNCHANGED <<User, Like, Match, pubsub, now, ticks, pending,
                   SafetyReport, issued>>

\* lines 39-42: user.save() writes hiatus when the assignment changed it, and
\* the response
ReportSaveUser(p) ==
    LET r == req[p] IN
    /\ r.op = "reportSuspiciousActivity" /\ r.pc = "saveUser"
    /\ User' = [User EXCEPT ![r.targetId].hiatus =
                   IF r.user.hiatus THEN @ ELSE TRUE]
    /\ Finish(p, r, 200, "Suspicious activity reported successfully")
    /\ UNCHANGED <<Like, Match, pubsub, now, ticks, pending,
                   SafetyReport, issued>>

\* --------------------------------------------------------- authentication
\* authController.js line 57: jwt.sign({ userId: user._id }, ...)
LoginPayload(userId, user) ==
    [id |-> Null, userId |-> userId, tokenVersion |-> Absent]

\* lines 46-52: User.findOne({ email }), the verified check and
\* bcrypt.compare; the user is registered and verified, the password is the
\* right one or not
LoginStart(p, userId, isMatch) ==
    /\ FreeSlot(p)
    /\ pending' = pending - 1
    /\ LET r == NewReq("login", userId, Null, Null) IN
        IF ~isMatch
        THEN Finish(p, r, 401, "Invalid credentials")
        ELSE Goto(p, [r EXCEPT !.user = User[userId]], "saveUser")
    /\ UNCHANGED <<User, Like, Match, pubsub, now, ticks, SafetyReport, issued>>

\* lines 54-59: user.save() writes lastActive, the token is signed and
\* returned
LoginSave(p) ==
    LET r == req[p]
        token == LoginPayload(r.userId, r.user)
    IN
    /\ r.op = "login" /\ r.pc = "saveUser"
    /\ issued' = issued \cup
           {[payload |-> token, userId |-> r.userId,
             tokenVersion |-> User[r.userId].tokenVersion]}
    /\ Finish(p, [r EXCEPT !.token = token], 200, "Login successful")
    /\ UNCHANGED <<User, Like, Match, pubsub, now, ticks, pending, SafetyReport>>

\* lines 171-185: User.findOne({ passwordResetToken, passwordResetExpires })
\* for the reset token of userId, or of nobody; the new password, and
\* tokenVersion += 1 on the copy
ResetPasswordStart(p, userId) ==
    /\ FreeSlot(p)
    /\ pending' = pending - 1
    /\ LET r == NewReq("resetPassword", userId, Null, Null) IN
        IF userId \notin DOMAIN User
        THEN Finish(p, r, 400, "Invalid or expired reset token")
        ELSE Goto(p, [r EXCEPT !.user =
                         [User[userId] EXCEPT !.tokenVersion = @ + 1]],
                  "saveUser")
    /\ UNCHANGED <<User, Like, Match, pubsub, now, ticks, SafetyReport, issued>>

\* lines 186-189: user.save() writes the modified path tokenVersion
ResetPasswordSave(p) ==
    LET r == req[p] IN
    /\ r.op = "resetPassword" /\ r.pc = "saveUser"
    /\ User' = [User EXCEPT ![r.userId].tokenVersion = r.user.tokenVersion]
    /\ Finish(p, r, 200, "Password reset successfully")
    /\ UNCHANGED <<Like, Match, pubsub, now, ticks, pending,
                   SafetyReport, issued>>

\* what a request can present: a token's payload, or NoPayload for no token
Payloads ==
    [id : Users \cup {Null}, userId : Users \cup {Null},
     tokenVersion : {Absent} \cup (0 .. MaxAuthRequests)]

\* authMiddleware.js lines 3-14, for no token or a token that login signed:
\* jwt.verify, User.findById(decoded.id), which finds nothing for an
\* undefined id, and the comparison of tokenVersion
AuthMiddleware(p, decoded) ==
    /\ FreeSlot(p)
    /\ pending' = pending - 1
    /\ decoded = NoPayload \/ \E t \in issued : t.payload = decoded
    /\ LET r == [NewReq("authMiddleware", decoded.id, Null, Null)
                    EXCEPT !.token = decoded] IN
        IF decoded = NoPayload
        THEN Finish(p, r, 401, "No token provided")
        ELSE IF \/ decoded.id \notin DOMAIN User
                \/ User[decoded.id].tokenVersion # decoded.tokenVersion
        THEN Finish(p, r, 401, "Invalid or expired token")
        ELSE Finish(p, r, 200, Null)
    /\ UNCHANGED <<User, Like, Match, pubsub, now, ticks, SafetyReport, issued>>

\* ------------------------------------------------------------------ swipe
\* swipe of the counter-based controller, lines 138-141: the direction check
\* and User.findById(req.userId)
SwipeStart(p, userId, targetId, direction) ==
    /\ FreeSlot(p)
    /\ pending' = pending - 1
    /\ LET r == NewReq("swipe", userId, targetId, direction) IN
        IF direction \notin {"right", "left", "up"}
        THEN Finish(p, r, 400, "Invalid swipe direction")
        ELSE Goto(p, [r EXCEPT !.user = User[userId]], "findTarget")
    /\ UNCHANGED <<User, Like, Match, pubsub, now, ticks, SafetyReport, issued>>

\* lines 142-146, 153-158: User.findById(targetId), then the counters and
\* lists are changed on the two copies
SwipeFindTarget(p) ==
    LET r == req[p] IN
    /\ r.op = "swipe" /\ r.pc = "findTarget"
    /\ IF r.targetId \notin DOMAIN User
       THEN Finish(p, r, 404, "Target user not found")
       ELSE LET t == User[r.targetId] IN
            IF r.direction = "right"
            THEN Goto(p, [r EXCEPT !.target = [t EXCEPT !.swipesRight = @ + 1]],
                      "findReverse")
            ELSE IF r.direction = "left"
            THEN Goto(p, [r EXCEPT !.target = [t EXCEPT !.swipesLeft = @ + 1],
                                   !.user.skippedMatches = Append(@, r.targetId)],
                      "saveUser")
            ELSE Goto(p, [r EXCEPT !.target = t,
                                   !.user.maybeSwipes = Append(@, r.targetId)],
                      "saveUser")
    /\ UNCHANGED <<User, Like, Match, pubsub, now, ticks, pending,
                   SafetyReport, issued>>

\* lines 147-148: Match.findOne({ users: [targetId, req.userId] })
SwipeFindReverse(p) ==
    LET r == req[p] IN
    /\ r.op = "swipe" /\ r.pc = "findReverse"
    /\ IF FindMatchExact(r.targetId, r.userId)
       THEN Goto(p, r, "createMatch")
       ELSE Goto(p, r, "saveUser")
    /\ UNCHANGED <<User, Like, Match, pubsub, now, ticks, pending,
                   SafetyReport, issued>>

\* lines 149-151: Match.create({ users: [req.userId, targetId] }) and the
\* response; neither copy is saved
SwipeCreateMatch(p) ==
    LET r == req[p] IN
    /\ r.op = "swipe" /\ r.pc = "createMatch"
    /\ Match' = [Match EXCEPT ![<<r.userId, r.targetId>>] = @ + 1]
    /\ Finish(p, r, 200, "Swipe successful, match created")
    /\ UNCHANGED <<User, Like, pubsub, now, ticks, pending,
                   SafetyReport, issued>>

\* line 159: user.save() writes what was pushed on the copy ($push, and the
\* version key is incremented); nothing for a right swipe
SwipeSaveUser(p) ==
    LET r == req[p] IN
    /\ r.op = "swipe" /\ r.pc = "saveUser"
    /\ User' = [User EXCEPT ![r.userId] =
                   IF r.direction = "left"
                   THEN [@ EXCEPT !.skippedMatches = Append(@, r.targetId),
                                  !.v = @ + 1]
                   ELSE IF r.direction = "up"
                   THEN [@ EXCEPT !.maybeSwipes = Append(@, r.targetId),
                                  !.v = @ + 1]
                   ELSE @]
    /\ Goto(p, r, "saveTarget")
    /\ UNCHANGED <<Like, Match, pubsub, now, ticks, pending,
                   SafetyReport, issued>>

\* a swipe that never saves the target
SwipeSaveTargetSkipped(p) ==
    LET r == req[p] IN
    /\ r.op = "swipe" /\ r.pc = "saveTarget"
    /\ Finish(p, r, 200, "Swipe successful")
    /\ UNCHANGED <<User, Like, Match, pubsub, now, ticks, pending,
                   SafetyReport, issued>>

\* lines 160-161: target.save() writes the counter changed on the copy ($set)
SwipeSaveTarget(p) ==
    LET r == req[p] IN
    /\ r.op = "swipe" /\ r.pc = "saveTarget"
    /\ User' = [User EXCEPT ![r.targetId] =
                   IF r.direction = "right"
                   THEN [@ EXCEPT !.swipesRight = r.target.swipesRight]
                   ELSE IF r.direction = "left"
                   THEN [@ EXCEPT !.swipesLeft = r.target.swipesLeft]
                   ELSE @]
    /\ Finish(p, r, 200, "Swipe successful")
    /\ UNCHANGED <<Like, Match, pubsub, now, ticks, pending,
                   SafetyReport, issued>>

\* ------------------------------------------------------------------ clock
Tick(d) ==
    /\ ticks < MaxTicks
    /\ now' = now + d
    /\ ticks' = ticks + 1
    /\ UNCHANGED <<User, Like, Match, pubsub, req, pending, response,
                   SafetyReport, issued>>

Step(p) ==
    \/ \E a \in Users, t \in Users \cup {Ghost}, d \in Directions :
           LikeStart(p, a, t, d)
    \/ LikeFindUser(p)
    \/ LikeFindExisting(p)
    \/ LikeSave(p)
    \/ LikeSaveUser(p)
    \/ LikeFindMutual(p)
    \/ LikeFindMatch(p)
    \/ LikeSaveMatch(p)
    \/ LikeSaveMaybe(p)
    \/ \E a \in Users : UndoStart(p, a)
    \/ UndoFindOneAndDelete(p)
    \/ UndoSaveUser(p)
    \/ \E a \in Users : DeleteStart(p, a)
    \/ DeleteMatches(p)
    \/ DeleteLikes(p)

\* requests served concurrently by MaxProcs workers
Next == \E p \in Procs : Step(p)

Spec == Init /\ [][Next]_vars

\* no request is in flight
Quiet == \A p \in Procs : req[p].op = "idle"

\* one request at a time
NextSeq == Step(1)

SpecSeq == InitWith(MaxSeqRequests) /\ [][NextSeq]_vars

\* one request at a time, and the clock advancing between requests
NextClock ==
    \/ Step(1)
    \/ \E d \in {1, UndoWindow - 1} : Quiet /\ Tick(d)

SpecClock == InitWith(MaxClockRequests) /\ [][NextClock]_vars

\* one request at a time, and the clock ticking between requests
NextSwipes ==
    \/ Step(1)
    \/ Quiet /\ ticks < MaxSwipeTicks /\ Tick(1)

SpecSwipes == InitWith(MaxSwipeRequests) /\ [][NextSwipes]_vars

\* discovery and hiatus, one request at a time
Discover(p) ==
    \/ \E a \in Users, q \in Queries : GetProfilesStart(p, a, q)
    \/ GetProfilesFind(p)
    \/ \E a \in Users, q \in Queries : CountedGetProfilesStart(p, a, q)
    \/ CountedGetProfilesFindUser(p)
    \/ CountedGetProfilesSave(p)
    \/ \E a \in Users : ToggleHiatusStart(p, a)
    \/ ToggleHiatusSave(p)

NextDiscover == Discover(1)

SpecDiscover == InitWith(MaxDiscoverRequests) /\ [][NextDiscover]_vars

\* reports, hiatus and discovery, one request at a time
Safety(p) ==
    \/ \E a \in Users, t \in Users \cup {Ghost} : ReportStart(p, a, t)
    \/ ReportCountDocuments(p)
    \/ ReportFindUser(p)
    \/ ReportSaveUser(p)
    \/ \E a \in Users : ToggleHiatusStart(p, a)
    \/ ToggleHiatusSave(p)
    \/ \E a \in Users, q \in Queries : GetProfilesStart(p, a, q)
    \/ GetProfilesFind(p)

NextSafety == Safety(1)

SpecSafety == InitWith(MaxSafetyRequests) /\ [][NextSafety]_vars

\* login, password reset and authenticated requests, one at a time
Auth(p) ==
    \/ \E a \in Users, isMatch \in BOOLEAN : LoginStart(p, a, isMatch)
    \/ LoginSave(p)
    \/ \E a \in Users \cup {Ghost} : ResetPasswordStart(p, a)
    \/ ResetPasswordSave(p)
    \/ \E decoded \in Payloads : AuthMiddleware(p, decoded)

NextAuth == Auth(1)

SpecAuth == InitWith(MaxAuthRequests) /\ [][NextAuth]_vars

\* boosts and discovery, one request at a time, and a boost running out
\* between requests
Boost(p) ==
    \/ \E a \in Users : BoostProfileStart(p, a)
    \/ BoostProfileSave(p)
    \/ \E a \in Users, q \in Queries : GetProfilesStart(p, a, q)
    \/ GetProfilesFind(p)
    \/ \E a \in Users, q \in Queries : CountedGetProfilesStart(p, a, q)
    \/ CountedGetProfilesFindUser(p)
    \/ CountedGetProfilesSave(p)

NextBoost ==
    \/ Boost(1)
    \/ Quiet /\ ticks < MaxBoostTicks /\ Tick(BoostWindow)

SpecBoost == InitWith(MaxBoostRequests) /\ [][NextBoost]_vars

\* the swipe handler of the counter-based controller
Swipe(p) ==
    \/ \E a \in Users, t \in Users \cup {Ghost}, d \in SwipeDirections :
           SwipeStart(p, a, t, d)
    \/ SwipeFindTarget(p)
    \/ SwipeFindReverse(p)
    \/ SwipeCreateMatch(p)
    \/ SwipeSaveUser(p)
    \/ SwipeSaveTarget(p)

\* the two swipe handlers, likeProfile and swipe, one request at a time
NextCounted == Step(1) \/ Swipe(1)

SpecCounted == InitWith(MaxCountedRequests) /\ [][NextCounted]_vars

\* ------------------------------------------------------------ properties
\* Match and MATCH_CREATED events of the unordered pair {a, b}
MatchesOf(a, b) == Match[<<a, b>>] + Match[<<b, a>>]
EventsOf(a, b) == pubsub[<<a, b>>] + pubsub[<<b, a>>]

\* the right swipes a -> b and b -> a have both been stored and every request
\* has completed
MutualLikesDone(a, b) ==
    /\ a # b
    /\ Quiet
    /\ Like[<<a, b>>] > 0
    /\ Like[<<b, a>>] > 0

\* C1: once the right swipes a -> b and b -> a have both succeeded and
\* completed, in whatever order or interleaving, exactly one Match is stored
\* for the unordered pair {a, b}.
C1_ExactlyOneMatch ==
    \A a \in Users, b \in Users :
        MutualLikesDone(a, b) => MatchesOf(a, b) = 1

\* C2: when two users have swiped right on each other, sequentially or
\* concurrently, exactly one MATCH_CREATED event has been published for the
\* pair.
C2_ExactlyOneEvent ==
    \A a \in Users, b \in Users :
        MutualLikesDone(a, b) => EventsOf(a, b) = 1

\* C4: in every reachable state the Like collection holds at most one entry
\* per ordered (actor, target) pair, also when the same actor issues two right
\* swipes on the same target concurrently.
C4_OneEntryPerPair ==
    \A pr \in Pairs : Like[pr] <= 1

IsLikeRight(x, a, b) ==
    /\ x.op = "likeProfile"
    /\ x.userId = a
    /\ x.targetId = b
    /\ x.direction = "right"

IsUndo(x, a) == x.op = "undoLastSwipe" /\ x.userId = a

\* this step sends a response
Responds ==
    \/ \E p \in Procs : req[p].op # "idle" /\ req'[p].op = "idle"
    \/ pending' = pending - 1 /\ req' = req

C5_UndoSingleShot ==
    [][\A a \in Users :
          ( /\ IsUndo(response, a)
            /\ response.status = 200
            /\ Responds
            /\ IsUndo(response', a) )
          => ( /\ response'.status = 400
               /\ response'.message = "No recent swipe to undo" )]_vars

C5_Witness ==
    \E a \in Users :
        /\ IsUndo(response, a)
        /\ response.message = "No recent swipe to undo"
        /\ pending = MaxSeqRequests - 3
        /\ User[a].v = 2
        /\ User[a].maybeLikes = <<>>

\* time since the swipe recorded in a's lastSwipeAction
Elapsed(a) == now - User[a].lastSwipeAction.timestamp

\* this step is the arrival of an undoLastSwipe(a) request
UndoIssued(a) ==
    /\ pending' = pending - 1
    /\ \/ \E p \in Procs : req[p].op = "idle" /\ IsUndo(req'[p], a)
       \/ req' = req /\ IsUndo(response', a)

\* C6: undo respects the 24-hour window: an undoLastSwipe(a) that arrives one
\* time unit before the window has elapsed since the recorded swipe is not
\* rejected and goes on to reverse the swipe, ending in success when served
\* alone unless the ledger entry is gone; one that arrives one time unit after
\* the window is rejected with 'Undo period expired (24 hours)'.
C6_UndoWindow ==
    [][/\ \A a \in Users :
            (UndoIssued(a) /\ ~NoRecentSwipe(User[a].lastSwipeAction)) =>
                /\ Elapsed(a) = UndoWindow + 1 =>
                       /\ req' = req
                       /\ response'.status = 400
                       /\ response'.message = "Undo period expired (24 hours)"
                /\ Elapsed(a) = UndoWindow - 1 =>
                       \E p \in Procs : IsUndo(req'[p], a)
       /\ \A p \in Procs :
            (req[p].op = "undoLastSwipe" /\ req'[p].op = "idle") =>
                \/ response'.status = 200
                \/ response'.message = "Like not found to undo"]_vars

C6_Witness ==
    \E a \in Users :
        /\ IsUndo(response, a)
        /\ response.message = "Undo period expired (24 hours)"
        /\ Elapsed(a) = UndoWindow + 1

\* C7: an undo rejected because the window has expired changes nothing: the
\* Like collection (so the entry of the swipe it would have reversed), every
\* user's lastSwipeAction and maybeLikes, and the Matches stay as they were.
C7_ExpiredUndoChangesNothing ==
    [][( /\ Responds
         /\ response'.op = "undoLastSwipe"
         /\ response'.message = "Undo period expired (24 hours)" )
       => UNCHANGED <<User, Like, Match, pubsub>>]_vars

C7_Witness ==
    \E a \in Users, b \in Users :
        /\ IsUndo(response, a)
        /\ response.message = "Undo period expired (24 hours)"
        /\ User[a].lastSwipeAction.direction = "right"
        /\ User[a].lastSwipeAction.targetId = b
        /\ Like[<<a, b>>] = 1

\* the step of undo request p that looks for the ledger entry of the right
\* swipe it reverses, taken when that entry is gone
UndoFindsNoLike(p) ==
    /\ req[p].op = "undoLastSwipe"
    /\ req[p].pc = "findOneAndDelete"
    /\ Like[<<req[p].userId, req[p].user.lastSwipeAction.targetId>>] = 0
    /\ req'[p] # req[p]

\* C8 as stated: an undo of a right swipe whose ledger entry is already gone
\* is reported as a success and clears the user's lastSwipeAction.
C8_GoneEntryIsSuccess ==
    [][\A p \in Procs :
          UndoFindsNoLike(p) =>
              /\ response'.status = 200
              /\ User'[req[p].userId].lastSwipeAction = NoSwipe]_vars

\* C8 amended: an undo of a right swipe whose ledger entry is already gone
\* fails with 'Like not found to undo' (400) and writes nothing: the user's
\* lastSwipeAction is left as it was, not cleared.
C8_GoneEntryIsError ==
    [][\A p \in Procs :
          UndoFindsNoLike(p) =>
              /\ req'[p].op = "idle"
              /\ response'.op = "undoLastSwipe"
              /\ response'.userId = req[p].userId
              /\ response'.status = 400
              /\ response'.message = "Like not found to undo"
              /\ UNCHANGED <<User, Like, Match, pubsub>>]_vars

C8_Witness ==
    \E a \in Users :
        /\ IsUndo(response, a)
        /\ response.message = "Like not found to undo"
        /\ User[a].lastSwipeAction.direction = "right"
        /\ Like[<<a, User[a].lastSwipeAction.targetId>>] = 0

\* this step is taken by an undoLastSwipe request
UndoStep ==
    \/ \E a \in Users : UndoIssued(a)
    \/ \E p \in Procs : req[p].op = "undoLastSwipe" /\ req'[p] # req[p]

\* C9: undoLastSwipe never removes or alters a Match: no step of an undo
\* changes the Match collection, so a Match the reciprocal swipe had produced
\* is still there after the undo.
C9_UndoKeepsMatch ==
    [][UndoStep => Match' = Match]_vars

C9_Witness ==
    \E a \in Users, b \in Users :
        /\ IsUndo(response, a)
        /\ response.status = 200
        /\ Like[<<a, b>>] = 0
        /\ Like[<<b, a>>] = 1
        /\ MatchesOf(a, b) = 1

\* number of times x occurs in the sequence s
Occurrences(s, x) == Cardinality({i \in 1 .. Len(s) : s[i] = x})

\* the step in which undo request p, reversing an 'up' swipe, saves the user
\* and succeeds
UndoUpSucceeds(p) ==
    /\ req[p].op = "undoLastSwipe"
    /\ req[p].pc = "saveUser"
    /\ req[p].user.lastSwipeAction.direction = "up"
    /\ req'[p].op = "idle"
    /\ response'.status = 200

\* C10: a successful undo of an 'up' swipe by a on b removes b from a's
\* maybeLikes and leaves every other member of that list, every other user,
\* every ledger entry and every Match unchanged; getProfiles afterwards does
\* not exclude b for a.
C10_UndoUp ==
    [][\A p \in Procs :
          UndoUpSucceeds(p) =>
              LET a == req[p].userId
                  b == req[p].user.lastSwipeAction.targetId
              IN
              /\ Occurrences(User'[a].maybeLikes, b) = 0
              /\ \A c \in Users \ {b} :
                     Occurrences(User'[a].maybeLikes, c)
                         = Occurrences(User[a].maybeLikes, c)
              /\ \A c \in Users \ {a} : User'[c] = User[c]
              /\ UNCHANGED <<Like, Match, pubsub>>
              /\ b \in getProfiles(a)']_vars

C10_Witness ==
    \E a \in Users :
        /\ IsUndo(response, a)
        /\ response.status = 200
        /\ User[a].v = 3
        /\ Len(User[a].maybeLikes) = 1
        /\ User[a].lastSwipeAction = NoSwipe

\* the step in which likeProfile request p sends its response
LikeResponds(p) == req[p].op = "likeProfile" /\ req'[p].op = "idle"

\* C11: in the race where two mutual right swipes both reach Match creation,
\* neither likeProfile call returns an error: both report success, and the one
\* that finds a Match of the pair already stored reports that Match ('Match
\* already exists') and stores nothing.
C11_LoserReportsExistingMatch ==
    [][\A p \in Procs :
          ( /\ LikeResponds(p)
            /\ req[p].pc \in {"findMatch", "saveMatch"} )
          => /\ response'.status = 200
             /\ MatchesOf(req[p].userId, req[p].targetId) > 0 =>
                    /\ response'.message = "Match already exists"
                    /\ UNCHANGED <<Match, pubsub>>]_vars

\* C12: match detection is idempotent across undo and re-like: a successful
\* right swipe by a on b that finds the reverse entry (b, a) while a Match of
\* {a, b} is stored answers 'Match already exists', stores no second Match
\* and publishes no further MATCH_CREATED event.
C12_RelikeReturnsExistingMatch ==
    [][\A p \in Procs :
          ( /\ LikeResponds(p)
            /\ req[p].direction = "right"
            /\ response'.status = 200
            /\ MatchesOf(req[p].userId, req[p].targetId) > 0
            /\ Like[<<req[p].targetId, req[p].userId>>] > 0 )
          => /\ response'.message = "Match already exists"
             /\ UNCHANGED <<Match, pubsub>>]_vars

C12_Witness ==
    \E a \in Users, b \in Users :
        /\ IsLikeRight(response, a, b)
        /\ response.message = "Match already exists"
        /\ pending = MaxSeqRequests - 4
        /\ User[a].lastSwipeAction.targetId = b
        /\ Like[<<a, b>>] = 1
        /\ Like[<<b, a>>] = 1
        /\ MatchesOf(a, b) = 1
        /\ EventsOf(a, b) = 1

\* C13 as stated: a swipe whose actor equals its target always fails with the
\* self-action error 'Cannot like yourself', for every direction, so no
\* ledger entry (u, u), no u in u's own maybeLikes and no Match holding the
\* same user twice exists.
C13_SelfSwipeFails ==
    /\ (response.op = "likeProfile" /\ response.userId = response.targetId) =>
           /\ response.status = 400
           /\ response.message = "Cannot like yourself"
    /\ \A u \in Users :
           /\ Like[<<u, u>>] = 0
           /\ Match[<<u, u>>] = 0
           /\ ~Includes(User[u].maybeLikes, u)

\* C13 amended: a likeProfile whose actor equals its target always fails with
\* status 400: with 'Cannot like yourself' for the directions right and up,
\* and with 'Invalid direction' for left, which is rejected first.  So no
\* ledger entry (u, u), no u in u's own maybeLikes and no Match holding the
\* same user twice exists.
C13_SelfLikeFails ==
    /\ (response.op = "likeProfile" /\ response.userId = response.targetId) =>
           /\ response.status = 400
           /\ response.message =
                  IF response.direction \in {"right", "up"}
                  THEN "Cannot like yourself" ELSE "Invalid direction"
    /\ \A u \in Users :
           /\ Like[<<u, u>>] = 0
           /\ Match[<<u, u>>] = 0
           /\ ~Includes(User[u].maybeLikes, u)

C13_Witness ==
    /\ response.op = "likeProfile"
    /\ response.userId = response.targetId
    /\ response.direction = "up"
    /\ response.message = "Cannot like yourself"
    /\ User[response.userId].lastSwipeAction.direction = "up"
    /\ Len(User[response.userId].maybeLikes) = 1

\* C14: an 'up' swipe by a on b fails with 'Already marked as maybe' when b is
\* in a's maybeLikes and otherwise adds b, so a's maybeLikes never holds the
\* same target twice.
C14_NoDuplicateMaybe ==
    \A u \in Users, t \in Users : Occurrences(User[u].maybeLikes, t) <= 1

\* the step in which right swipe p checks for the reverse ledger entry
MutualCheck(p) ==
    /\ req[p].op = "likeProfile"
    /\ req[p].pc = "findMutual"
    /\ req'[p] # req[p]

\* C17 as stated: a right swipe by a on b whose check finds no ledger entry
\* (b, a) stores no Match and publishes no event, so whenever a Match is
\* stored or an event is published, it is one Match and one event of a pair
\* {a, b} whose ledger entries (a, b) and (b, a) are both present.
C17_BothEntriesAtCreation ==
    [][/\ \A p \in Procs :
            (MutualCheck(p) /\ Like[<<req[p].targetId, req[p].userId>>] = 0) =>
                UNCHANGED <<Match, pubsub>>
       /\ \A pr \in Pairs :
            (Match'[pr] > Match[pr] \/ pubsub'[pr] > pubsub[pr]) =>
                /\ Like[pr] > 0
                /\ Like[<<pr[2], pr[1]>>] > 0]_vars

\* C17 amended: a right swipe by a on b whose check finds no ledger entry
\* (b, a) answers 'Profile liked', stores no Match and publishes no event; a
\* Match is stored and an event published only by a right swipe of a on b,
\* a # b, whose check found the entry (b, a), one Match and one event at a
\* time.  The entries are those found at the check: they need not be present
\* any more when the Match is stored.
C17_MatchOnlyOnReciprocity ==
    [][/\ \A p \in Procs :
            /\ (MutualCheck(p) /\ Like[<<req[p].targetId, req[p].userId>>] = 0) =>
                   /\ req'[p].op = "idle"
                   /\ response'.status = 200
                   /\ response'.message = "Profile liked"
                   /\ UNCHANGED <<Match, pubsub>>
            /\ (req'[p].pc = "findMatch" /\ req[p].pc # "findMatch") =>
                   /\ MutualCheck(p)
                   /\ Like[<<req[p].targetId, req[p].userId>>] > 0
            /\ (req'[p].pc = "saveMatch" /\ req[p].pc # "saveMatch") =>
                   /\ req[p].pc = "findMatch"
                   /\ req'[p].userId = req[p].userId
                   /\ req'[p].targetId = req[p].targetId
       /\ \A pr \in Pairs :
            (Match'[pr] > Match[pr] \/ pubsub'[pr] > pubsub[pr]) =>
                /\ Match'[pr] = Match[pr] + 1
                /\ pubsub'[pr] = pubsub[pr] + 1
                /\ pr[1] # pr[2]
                /\ \E p \in Procs :
                       /\ LikeResponds(p)
                       /\ req[p].pc = "saveMatch"
                       /\ pr = <<req[p].userId, req[p].targetId>>]_vars

C17_Witness ==
    \E a \in Users, b \in Users :
        /\ IsLikeRight(response, a, b)
        /\ response.message = "Match created!"
        /\ MatchesOf(a, b) = 1
        /\ Like[<<a, b>>] = 0
        /\ Like[<<b, a>>] = 1
        /\ User[a].lastSwipeAction = NoSwipe

\* the step in which undo request p acts on the stores
UndoActs(p) ==
    /\ req[p].op = "undoLastSwipe"
    /\ req'[p] # req[p]

\* C16: after every successful right or up swipe by u on t, u's
\* lastSwipeAction is (that direction, t, time of the swipe), whatever it held
\* before; and an undo of u reverses the swipe recorded there and nothing
\* else: it removes at most the ledger entry (u, t) or t from u's maybeLikes,
\* and every other ledger entry, every other member of maybeLikes, every
\* other user and every Match stay in place.
C16_LastSwipeIsLatest ==
    [][\A p \in Procs :
          /\ (LikeResponds(p) /\ response'.status = 200) =>
                 User'[req[p].userId].lastSwipeAction =
                     [direction |-> req[p].direction,
                      targetId |-> req[p].targetId,
                      timestamp |-> now]
          /\ UndoActs(p) =>
                 LET u == req[p].userId
                     a == User[u].lastSwipeAction
                 IN
                 /\ \A pr \in Pairs \ {<<u, a.targetId>>} : Like'[pr] = Like[pr]
                 /\ a.direction = "up" => Like' = Like
                 /\ a.direction = "right" =>
                        User'[u].maybeLikes = User[u].maybeLikes
                 /\ \A c \in Users \ {a.targetId} :
                        Occurrences(User'[u].maybeLikes, c)
                            = Occurrences(User[u].maybeLikes, c)
                 /\ \A c \in Users \ {u} : User'[c] = User[c]
                 /\ Match' = Match]_vars

C16_Witness ==
    \E a \in Users, b \in Users, c \in Users :
        /\ IsUndo(response, a)
        /\ response.status = 200
        /\ pending = MaxSwipeRequests - 3
        /\ now = MaxSwipeTicks
        /\ b # c
        /\ c # a
        /\ Like[<<a, b>>] = 1
        /\ Like[<<a, c>>] = 0
        /\ User[a].maybeLikes = <<>>
        /\ User[a].lastSwipeAction = NoSwipe

\* the response is that of a getProfiles request, of either controller
IsGetProfiles(x) == x.op \in {"getProfiles", "countedGetProfiles"}

\* C18: for every requester and every filter, the profiles getProfiles
\* returns hold neither the requester's own profile nor a profile whose
\* hiatus flag is true.
C18_NoRequesterNoHiatus ==
    IsGetProfiles(response) =>
        /\ response.userId \notin response.data
        /\ \A u \in response.data : ~User[u].hiatus

C18_Witness ==
    /\ IsGetProfiles(response)
    /\ response.status = 200
    /\ response.query.maxDistance # Absent
    /\ response.data # {}
    /\ \E u \in Users \ {response.userId} :
           /\ User[u].hiatus
           /\ response.query.gender \in {Null, Gender[u]}
           /\ Metres(Location[u], response.query.lng, response.query.lat)
                  <= MaxDistance(response.query) * 1000

\* C19: getProfiles called without a center coordinate (lat or lng absent)
\* fails with the invalid-filter error (400) and returns no profiles; with
\* both present it succeeds whatever other filter fields are omitted.
C19_CenterIsMandatory ==
    IsGetProfiles(response) =>
        IF response.query.lat = Absent \/ response.query.lng = Absent
        THEN /\ response.status = 400
             /\ response.data = {}
        ELSE response.status = 200

\* C20: each successful getProfiles invocation increments the requester's
\* views by exactly one, and nothing else changes the views of any user.
C20_ViewsCountInvocations ==
    [][/\ \A p \in Procs :
            ( /\ IsGetProfiles(req[p])
              /\ req'[p].op = "idle"
              /\ response'.status = 200 )
            => User'[req[p].userId].views = User[req[p].userId].views + 1
       /\ \A u \in Users :
            User'[u].views # User[u].views =>
                \E p \in Procs :
                    /\ IsGetProfiles(req[p])
                    /\ req[p].userId = u
                    /\ req'[p].op = "idle"
                    /\ response'.status = 200
                    /\ User'[u].views = User[u].views + 1]_vars

\* this step sends the response to a swipe with direction left on a target
\* that exists, made through either swipe handler
LeftSwipeResponds ==
    /\ Responds
    /\ response'.op \in {"likeProfile", "swipe"}
    /\ response'.direction = "left"
    /\ response'.targetId \in DOMAIN User

\* C15 as stated: a swipe with direction left on an existing target is
\* accepted and increments that target's swipesLeft by one, without creating
\* a ledger entry.
C15_LeftSwipeCounts ==
    [][LeftSwipeResponds =>
          /\ response'.status = 200
          /\ User'[response'.targetId].swipesLeft
                 = User[response'.targetId].swipesLeft + 1
          /\ Like' = Like]_vars

\* C15 amended: a swipe with direction left on an existing target made
\* through swipe is accepted and increments that target's swipesLeft by one,
\* without creating a ledger entry or a Match; made through likeProfile it is
\* rejected with 400 'Invalid direction' and changes nothing.
C15_LeftSwipeCountsOrRejected ==
    [][LeftSwipeResponds =>
          IF response'.op = "swipe"
          THEN /\ response'.status = 200
               /\ User'[response'.targetId].swipesLeft
                      = User[response'.targetId].swipesLeft + 1
               /\ UNCHANGED <<Like, Match, pubsub>>
          ELSE /\ response'.status = 400
               /\ response'.message = "Invalid direction"
               /\ UNCHANGED <<User, Like, Match, pubsub>>]_vars

C15_Witness ==
    /\ response.op = "swipe"
    /\ response.direction = "left"
    /\ response.status = 200
    /\ response.targetId \in DOMAIN User
    /\ User[response.targetId].swipesLeft = 2
    /\ Len(User[response.userId].skippedMatches) = 1
    /\ \A pr \in Pairs : Like[pr] = 0

\* some ledger entry, Match or maybeLikes entry refers to the user u
Referenced(u) ==
    \/ \E pr \in Pairs : u \in {pr[1], pr[2]} /\ (Like[pr] > 0 \/ Match[pr] > 0)
    \/ \E w \in DOMAIN User : Includes(User[w].maybeLikes, u)

\* C22: account deletion cascades: once deleteProfile(u) has completed, the
\* profile u no longer exists and no ledger entry, Match or maybeLikes entry
\* of any user refers to u.
C22_DeletionCascades ==
    response.op = "deleteProfile" =>
        /\ response.status = 200
        /\ response.userId \notin DOMAIN User
        /\ ~Referenced(response.userId)

\* no Match refers to u once deleteProfile(u) has completed: the part of the
\* cascade that Match.deleteMany of line 153 performs
NoMatchAfterDeletion ==
    (Quiet /\ response.op = "deleteProfile") =>
        \A pr \in Pairs : response.userId \in {pr[1], pr[2]} => Match[pr] = 0

\* C29: when deleteProfile(u) is served concurrently with another user's
\* likeProfile on u (right or up), then once both have completed, the
\* deletion last, no ledger entry, Match or maybeLikes entry refers to u.
C29_DeletionWinsRace ==
    /\ NoMatchAfterDeletion
    /\ (Quiet /\ response.op = "deleteProfile") => ~Referenced(response.userId)

\* this step sends the response of a likeProfile request that failed
LikeFails ==
    /\ Responds
    /\ response'.op = "likeProfile"
    /\ response'.status # 200

\* the positions of likeProfile that come after its first write (line 205)
AfterFirstWrite == {"saveUser", "findMutual", "findMatch", "saveMatch"}

\* C26: a likeProfile request that fails (invalid direction, self target,
\* missing target, duplicate right swipe, duplicate maybe) leaves the ledger,
\* the Matches, the maybeLikes and every lastSwipeAction unchanged and
\* publishes no event: it fails before its first write and the failing step
\* writes nothing.
C26_FailedLikeChangesNothing ==
    [][LikeFails =>
          /\ UNCHANGED <<User, Like, Match, pubsub>>
          /\ \A p \in Procs : LikeResponds(p) => req[p].pc \notin AfterFirstWrite]_vars

\* a duplicate right swipe has been rejected while the ledger, a maybeLikes and
\* a lastSwipeAction hold something to lose
C26_Witness ==
    /\ response.op = "likeProfile"
    /\ response.status = 400
    /\ response.message = "Already liked this profile"
    /\ FindLike(response.userId, response.targetId)
    /\ \E u \in DOMAIN User : Len(User[u].maybeLikes) > 0
    /\ User[response.userId].lastSwipeAction # NoSwipe

\* the step in which undo request p, reversing a 'right' swipe, saves the
\* user and succeeds
UndoRightSucceeds(p) ==
    /\ req[p].op = "undoLastSwipe"
    /\ req[p].pc = "saveUser"
    /\ req[p].user.lastSwipeAction.direction = "right"
    /\ req'[p].op = "idle"
    /\ response'.status = 200

\* C27: right swipe followed by undo is a round trip on the ledger: once
\* undoLastSwipe(a) has succeeded in reversing likeProfile(a, b, right), no
\* ledger entry (a, b) exists, and a likeProfile(a, b, right) served next
\* succeeds instead of failing as a duplicate.
C27_UndoThenRelike ==
    [][/\ \A p \in Procs :
            UndoRightSucceeds(p) =>
                Like'[<<req[p].userId, req[p].user.lastSwipeAction.targetId>>] = 0
       /\ \A a \in Users, b \in Users :
            ( /\ IsUndo(response, a)
              /\ response.status = 200
              /\ response.direction = "right"
              /\ response.targetId = b
              /\ Responds
              /\ IsLikeRight(response', a, b) )
            => /\ response'.status = 200
               /\ Like'[<<a, b>>] = 1]_vars

\* a has undone its right swipe on b and its next likeProfile(a, b, right) has
\* passed the duplicate check and stored the ledger entry again
C27_Witness ==
    \E a \in Users, b \in Users :
        /\ IsUndo(response, a)
        /\ response.status = 200
        /\ response.direction = "right"
        /\ response.targetId = b
        /\ IsLikeRight(req[1], a, b)
        /\ req[1].pc = "findMutual"
        /\ Like[<<a, b>>] = 1

\* the lastSwipeAction of u agrees with the ledger and with u's maybeLikes
SwipeRecordConsistent(u) ==
    LET a == User[u].lastSwipeAction IN
    \/ a.direction = "right" /\ a.targetId \in Users /\ FindLike(u, a.targetId)
    \/ a.direction = "up" /\ Includes(User[u].maybeLikes, a.targetId)
    \/ a = NoSwipe

\* C28: in every state with no request in flight and with no profile deleted,
\* a user's lastSwipeAction is consistent with the stores: if it is (right, t)
\* the ledger entry (u, t) exists, if it is (up, t) then t is in u's
\* maybeLikes, and otherwise its three fields are null.
C28_SwipeRecordConsistent ==
    (Quiet /\ DOMAIN User = Users) => \A u \in Users : SwipeRecordConsistent(u)

\* this step sends the response of a swipe request that was accepted, with
\* direction right or left
CountedSwipeResponds ==
    /\ Responds
    /\ response'.op = "swipe"
    /\ response'.status = 200
    /\ response'.direction \in {"right", "left"}

\* left swipes on t that the swipers' skippedMatches record
SkipsOf(t) ==
    LET RECURSIVE Sum(_)
        Sum(S) == IF S = {} THEN 0
                  ELSE LET u == CHOOSE x \in S : TRUE
                       IN Occurrences(User[u].skippedMatches, t) + Sum(S \ {u})
    IN Sum(DOMAIN User)

\* C24: in the counter-based swipe no increment is lost: every accepted right
\* (resp. left) swipe on t, a swipe that creates a match included, has t's
\* swipesRight (resp. swipesLeft) grow by exactly one, so that with no request
\* in flight swipesLeft equals the number of left swipes made on t.
C24_NoLostIncrement ==
    [][/\ CountedSwipeResponds =>
            LET t == response'.targetId IN
            IF response'.direction = "right"
            THEN User'[t].swipesRight = User[t].swipesRight + 1
            ELSE User'[t].swipesLeft = User[t].swipesLeft + 1
       /\ Quiet' => \A t \in Users : User'[t].swipesLeft = SkipsOf(t)']_vars

\* x is a swipe(a, b, right) request or its response
IsSwipeRight(x, a, b) ==
    /\ x.op = "swipe"
    /\ x.userId = a
    /\ x.targetId = b
    /\ x.direction = "right"

\* C25: in the counter-based swipe, when a has swiped right on b and b then
\* swipes right on a, a Match of the pair is recorded once and the second
\* swipe reports match = true ('Swipe successful, match created').
C25_MutualSwipeMatches ==
    [][\A a \in Users, b \in Users :
          ( /\ a # b
            /\ IsSwipeRight(response, a, b)
            /\ response.status = 200
            /\ Responds
            /\ IsSwipeRight(response', b, a) )
          => /\ response'.status = 200
             /\ response'.message = "Swipe successful, match created"
             /\ MatchesOf(a, b)' = 1]_vars

\* the step in which reportSuspiciousActivity request p sends its response
ReportResponds(p) ==
    req[p].op = "reportSuspiciousActivity" /\ req'[p].op = "idle"

\* C23: whenever a reportSuspiciousActivity call completes and at least 3
\* reports are stored against the reported user, that user's hiatus is true;
\* from then on hiatus goes back to false only through the user's own
\* toggleHiatus, and until then no getProfiles result holds the user.
C23_ThreeReportsHiatus ==
    [][/\ \A p \in Procs :
            ( /\ ReportResponds(p)
              /\ req[p].targetId \in DOMAIN User
              /\ SafetyReport'[req[p].targetId] >= 3 )
            => User'[req[p].targetId].hiatus
       /\ \A u \in Users :
            (User[u].hiatus /\ ~User'[u].hiatus) =>
                \E p \in Procs : /\ req[p].op = "toggleHiatus"
                                 /\ req[p].userId = u
       /\ (Responds /\ response'.op = "getProfiles") =>
            \A u \in response'.data : ~User'[u].hiatus]_vars

\* the third report against a user has completed and put the user on hiatus
C23_Witness ==
    /\ response.op = "reportSuspiciousActivity"
    /\ response.status = 200
    /\ response.targetId \in DOMAIN User
    /\ SafetyReport[response.targetId] = 3
    /\ User[response.targetId].hiatus
    /\ pending = MaxSafetyRequests - 3

\* C30: a token issued by a successful login is accepted by authMiddleware
\* and resolves to that user's id for as long as the user's password has not
\* been reset (tokenVersion, which counts the resets, is what it was when the
\* token was issued); after a resetPassword of that user has succeeded the
\* token is rejected with 401.
C30_TokenValidUntilReset ==
    [][(Responds /\ response'.op = "authMiddleware") =>
          \A t \in issued :
              t.payload = response'.token =>
                  IF User[t.userId].tokenVersion = t.tokenVersion
                  THEN /\ response'.status = 200
                       /\ response'.userId = t.userId
                  ELSE response'.status = 401]_vars

\* u has an active boost
Boosted(u) == User[u].boostedUntil > now

\* the ranking puts x before y: x is nearer than y and neither or both are
\* boosted, or x is boosted, y is not, and x is no farther than y
RankedBefore(x, y, q) ==
    \/ Boosted(x) = Boosted(y) /\ Distance(x, q) < Distance(y, q)
    \/ Boosted(x) /\ ~Boosted(y) /\ Distance(x, q) <= Distance(y, q)

\* C21: getProfiles orders the candidates nearest-first within the maximum
\* distance, a profile with an active boost (boostedUntil later than now)
\* before every non-boosted profile of equal or greater distance, and a
\* profile whose boost has expired as a non-boosted one.
C21_BoostRanking ==
    [][(Responds /\ IsGetProfiles(response') /\ response'.status = 200) =>
          LET l == response'.list IN
          \A i, j \in DOMAIN l : i < j => ~RankedBefore(l[j], l[i], response'.query)]_vars

====
